---------------------------- MODULE Spec2Model ----------------------------
(***************************************************************************)
(* Model of parlar's turn-taking and streaming-audio pipeline              *)
(* (src/src/main.rs): the shared State behind its mutex, the speaker ring  *)
(* buffer behind its mutex, the receiver loop's event handlers, the timer  *)
(* tasks spawned on input_audio_buffer.committed, the mic forwarding       *)
(* thread with its onset gate, the audio callbacks, the keyboard thread,   *)
(* and the pure level meter chunk_peak_level_i16.                          *)
(*                                                                         *)
(* Every context is a small program counter machine.  A step is either a   *)
(* mutex acquisition (enabled only when the mutex is free), the critical   *)
(* section up to and including the release of the guard, or one channel    *)
(* send.  Time is a discrete clock; Instant::now() reads it.               *)
(***************************************************************************)
EXTENDS Integers, Sequences, FiniteSets, TLC

(***************************************************************************)
(* Bounds of the model.                                                    *)
(***************************************************************************)
MaxEvents == 5          \* inbound messages the receiver loop takes
MaxTimers == 2          \* timer tasks spawned (commits accepted)
MaxTime == 5            \* last clock tick
MaxPartialLen == 6      \* characters accumulated in last_user_partial
NumItemIds == 2         \* distinct assistant item ids the server uses
MaxDeltaSamples == 1    \* samples carried by one response.audio.delta
MaxMeterLen == 3        \* samples in a level-meter input buffer
MaxChunks == 3          \* chunks the capture callback delivers
MaxPulls == 1           \* playback callbacks
MaxPullLen == 2         \* samples one playback callback asks for
MaxKeys == 1            \* presses of the I key
MaxGateEvents == 3      \* inbound messages in the gate specification
MaxLockEvents == 1      \* inbound messages in the lock specification
MaxLockChunks == 1      \* captured chunks in the lock specification
MaxBufEvents == 3       \* inbound messages in the playback buffer specification
MaxBufPulls == 2        \* playback callbacks in the playback buffer specification
MaxWireEvents == 2      \* inbound messages in the wire specification
MaxWireChunks == 1      \* captured chunks in the wire specification
MaxAnswerEvents == 4    \* inbound messages where the server answers each request
MaxCloseEvents == 1     \* inbound messages before the receiver loop ends
MaxCloseChunks == 1     \* captured chunks around the end of the receiver loop

(***************************************************************************)
(* Program constants.  The three durations are read from the environment   *)
(* (RESP_DELAY_SHORT_MS, RESP_DELAY_LONG_MS, CANCEL_COOLDOWN_MS); they are  *)
(* given here in clock ticks, short < cooldown < long as in the defaults.  *)
(***************************************************************************)
I16_MAX == 32767
I16_MIN == -32768
resp_delay_short_ms == 1
resp_delay_long_ms == 3
cancel_cooldown_ms == 2
onset_min_chunks == 2
\* Option::None for last_assistant_item_id and last_cancel_at
None == -1

VARIABLES
  st,          \* the State struct behind Arc<Mutex<State>>
  state_lock,  \* which context holds the State mutex ("free" if none)
  spk_buf,     \* the VecDeque<i16> behind Arc<Mutex<..>>: samples to play
  spk_lock,    \* which context holds the spk_buf mutex
  out_q,       \* messages sent on out_tx, in send order
  now,         \* the clock
  rx,          \* receiver loop: [pc, ev]
  timers,      \* the spawned timer tasks
  budget,      \* what the environment may still do: [ev, chunks, pulls, keys]
  nCreate,     \* response.create messages enqueued so far
  ss_log,      \* history: the speech_started events handled in a row
  kw_log,      \* history: the last transcription delta's decision
  scen,        \* history: how far the run follows commit, create, delta, speech
  cleared,     \* history: responses whose audio an interruption flushed
  mic_q,       \* the crossbeam channel mic_tx -> mic_rx: captured chunks
  cap,         \* capture callback: [pc, chunk]
  fw,          \* mic forwarding thread: [pc, bytes, peak, loud_consecutive]
  play,        \* playback callback: [pc, n, out]
  kbd,         \* keyboard thread: [pc]
  gate_log,    \* history: per chunk examined, [spk, loud, sent]
  fw_saw,      \* history: what the forwarding thread last read, and when
  lm_in,       \* level meter: the input buffer
  lm_out,      \* level meter: the value returned (None before the call)
  snd,         \* send_task: [pc, msg]
  wire,        \* messages written to the websocket by send_task, in order
  main_pc,     \* the main task after its receiver loop: "loop", "await", "done"
  hist         \* history: what the claims need to remember of the run

vars == <<st, state_lock, spk_buf, spk_lock, out_q, now, rx, timers,
          budget, nCreate, ss_log, kw_log, scen, cleared,
          mic_q, cap, fw, play, kbd, gate_log, fw_saw, lm_in, lm_out,
          snd, wire, main_pc, hist>>


(***************************************************************************)
(* Level meter: chunk_peak_level_i16 (main.rs 57-69).  Samples are i16.    *)
(* The f32 result peak / 32767 is kept exactly, as the integer numerator   *)
(* over I16_MAX: 0 is 0.0 and I16_MAX is 1.0.                              *)
(***************************************************************************)
MeterSamples == {I16_MIN, -I16_MAX, -7209, 0, 1, 7208, I16_MAX}

\* i16::wrapping_abs: the absolute value reduced to 16 bits, two's complement
wrapping_abs(s) ==
  LET a == IF s < 0 THEN 0 - s ELSE s
  IN  ((a + 32768) % 65536) - 32768

RECURSIVE PeakLoop(_, _)
\* the for loop of lines 61-67: peak starts at 0i16 and only grows
PeakLoop(samples, peak) ==
  IF samples = <<>> THEN peak
  ELSE LET a == wrapping_abs(Head(samples))
       IN  PeakLoop(Tail(samples), IF a > peak THEN a ELSE peak)

\* (x as f32 / i16::MAX as f32).min(1.0), in units of 1/I16_MAX
F32DivMin1(x) == IF x > I16_MAX THEN I16_MAX ELSE x

chunk_peak_level_i16(samples) ==
  IF samples = <<>> THEN 0 ELSE F32DivMin1(PeakLoop(samples, 0))

\* peak >= onset_peak, with onset_peak = 0.22 (INT_ONSET_PEAK default):
\* n / 32767 >= 22 / 100
AtLeastOnsetPeak(level) == level * 100 >= 22 * I16_MAX

(***************************************************************************)
(* Texts are sequences of one-character strings.                           *)
(***************************************************************************)
StartsWith(text, pat) ==
  /\ Len(pat) <= Len(text)
  /\ SubSeq(text, 1, Len(pat)) = pat

Contains(text, pat) ==
  \E i \in 1..(Len(text) - Len(pat) + 1) : SubSeq(text, i, i + Len(pat) - 1) = pat

\* str::ends_with(char)
EndsWithChar(text, c) == Len(text) > 0 /\ text[Len(text)] = c

LowerChar(c) ==
  CASE c = "S" -> "s" [] c = "T" -> "t" [] c = "O" -> "o" [] c = "P" -> "p"
    [] c = "W" -> "w" [] c = "A" -> "a" [] c = "I" -> "i" [] c = "H" -> "h"
    [] c = "L" -> "l" [] c = "D" -> "d" [] c = "N" -> "n" [] c = "E" -> "e"
    [] c = "Y" -> "y" [] c = "K" -> "k" [] OTHER -> c

to_lowercase(text) == [i \in 1..Len(text) |-> LowerChar(text[i])]

\* lines 643-648: the keyword match on the lower-cased partial transcript
contains_hot(partial) ==
  LET text_lc == to_lowercase(partial)
  IN  \/ Contains(text_lc, <<" ", "s", "t", "o", "p">>)
      \/ StartsWith(text_lc, <<"s", "t", "o", "p">>)
      \/ Contains(text_lc, <<" ", "w", "a", "i", "t">>)
      \/ Contains(text_lc, <<" ", "h", "o", "l", "d", " ", "o", "n">>)
      \/ Contains(text_lc, <<" ", "h", "e", "y">>)

\* lines 512-516 with the two delays exchanged
DelayForSwapped(u) ==
  IF EndsWithChar(u, ".") \/ EndsWithChar(u, "!") \/ EndsWithChar(u, "?")
  THEN resp_delay_long_ms
  ELSE resp_delay_short_ms

\* lines 512-516: the adaptive delay chosen from last_user
DelayFor(u) ==
  IF EndsWithChar(u, ".") \/ EndsWithChar(u, "!") \/ EndsWithChar(u, "?")
  THEN resp_delay_short_ms
  ELSE resp_delay_long_ms


(***************************************************************************)
(* Inbound messages.  A message is [type, id, resp, n, text]; fields a     *)
(* type does not carry are None / <<>>.  resp tells which response.create  *)
(* (counted from 1) a response.audio.delta answers: the client never reads *)
(* it, the samples it pushes are tagged with it.                           *)
(***************************************************************************)
ItemIds == 1..NumItemIds
Utterances == { <<"h", "i", "?">>, <<"o", "k", " ", "s", "o">> }
Deltas == { <<"S", "t", "o", "p">>, <<"o", "k">> }

Ev(type, id, resp, n, text) ==
  [type |-> type, id |-> id, resp |-> resp, n |-> n, text |-> text]

NoEv == Ev("none", None, None, None, <<>>)

\* frames and events the loop drops without touching anything (486-496, 669)
SkippedEvents ==
  { Ev(t, None, None, None, <<>>) :
      t \in {"nontext", "undecodable", "unknown", "session.created", "error"} }

\* events of the session itself, possible at any time
SessionEvents ==
  { Ev("input_audio_buffer.committed", None, None, None, <<>>),
    Ev("input_audio_buffer.speech_started", None, None, None, <<>>) }
  \cup { Ev("conversation.item.created.user", None, None, None, u) : u \in Utterances }
  \cup { Ev("conversation.item.input_audio_transcription.completed",
            None, None, None, u) : u \in Utterances }
  \cup { Ev("conversation.item.input_audio_transcription.delta",
            None, None, None, d) :
           d \in { x \in Deltas : Len(st.last_user_partial) + Len(x) <= MaxPartialLen } }

\* events of a response: the server sends them only for a response.create
\* it was sent (create_response is false in session.update, line 370)
ResponseEvents ==
  IF nCreate = 0 THEN {}
  ELSE { Ev(t, None, None, None, <<>>) :
           t \in {"response.audio.done", "response.text.delta",
                  "response.text.done", "response.done"} }
       \cup { Ev("response.output_item.added", i, None, None, <<>>) :
                i \in ItemIds \cup {None} }
       \cup { Ev("conversation.item.created.assistant", i, None, None, <<>>) :
                i \in ItemIds }
       \cup { Ev("response.audio.delta", None, r, n, <<>>) :
                r \in 1..nCreate, n \in (0..MaxDeltaSamples) \cup {None} }

InboundEvents == SkippedEvents \cup SessionEvents \cup ResponseEvents

\* every event locks State on arrival, the ones no arm handles included
LocksStateAlways(ev) == TRUE

\* whether the handler of ev starts by locking State
LocksState(ev) ==
  CASE ev \in SkippedEvents -> FALSE
    [] ev.type = "response.output_item.added" -> ev.id # None
    [] ev.type = "response.audio.delta" -> ev.n # None
    [] OTHER -> TRUE

\* the receiver loop between two messages; tgt is the response an
\* interruption in progress cancels (history)
RxIdle == [pc |-> "idle", ev |-> NoEv, tgt |-> None]

\* no transcription delta handled yet
NoDecision ==
  [hot |-> FALSE, cool |-> FALSE, spk |-> FALSE, fired |-> FALSE,
   at |-> None, last_cancel |-> None, prev_kw |-> None]

\* the forwarding thread blocked in mic_rx.recv(), its counter at c
FwIdle(c) == [pc |-> "recv", bytes |-> <<>>, peak |-> 0, loud_consecutive |-> c]

\* the playback callback not running
PlayIdle == [pc |-> "idle", n |-> 0, out |-> <<>>]

\* the forwarding thread has read nothing yet
NothingSeen == [speaking |-> FALSE, mid_keyword |-> FALSE]

(***************************************************************************)
(* Initial state: State::default(), empty buffers, no task spawned.        *)
(***************************************************************************)
InitState ==
  [response_active |-> FALSE, response_inflight |-> FALSE,
   last_assistant_item_id |-> None, last_cancel_at |-> None,
   last_user |-> <<>>, last_user_partial |-> <<>>]

InitProgram ==
  /\ st = InitState
  /\ state_lock = "free"
  /\ spk_buf = <<>>
  /\ spk_lock = "free"
  /\ out_q = <<>>
  /\ now = 0
  /\ rx = RxIdle
  /\ timers = <<>>
  /\ nCreate = 0
  /\ ss_log = <<>>
  /\ kw_log = NoDecision
  /\ scen = "start"
  /\ cleared = {}

InitAudio ==
  /\ mic_q = <<>>
  /\ cap = [pc |-> "idle", chunk |-> <<>>]
  /\ fw = FwIdle(0)
  /\ play = PlayIdle
  /\ kbd = [pc |-> "idle"]
  /\ gate_log = <<>>
  /\ fw_saw = NothingSeen

InitMeter ==
  /\ lm_in = <<>>
  /\ lm_out = None

\* send_task blocked in out_rx.recv() (381)
SndIdle == [pc |-> "recv", msg |-> NoEv]

\* history at the start: response_inflight never set, no message taken, no
\* item id stored, the abstract playback FIFO empty, no pull made, no
\* response requested.  phase follows the newest response.create:
\* "outstanding" from its send to response.done or the start of an
\* interruption, "interrupting" while an interruption sequence runs,
\* "interrupted" from the end of the receiver loop's sequence to the next
\* response.create, "idle" otherwise
InitHist ==
  [was_inflight |-> FALSE, last_ev |-> "none", item_resp |-> None,
   after_fail |-> FALSE, fifo |-> <<>>, expect |-> <<>>, phase |-> "idle"]

InitWire ==
  /\ snd = SndIdle
  /\ wire = <<>>
  /\ main_pc = "loop"

Budget(ev, chunks, pulls, keys) ==
  [ev |-> ev, chunks |-> chunks, pulls |-> pulls, keys |-> keys]

Init ==
  /\ InitProgram
  /\ InitAudio
  /\ InitMeter
  /\ InitWire
  /\ hist = InitHist
  /\ budget = Budget(MaxEvents, 0, 0, 0)

meterVars == <<lm_in, lm_out>>
wireVars == <<snd, wire, main_pc>>
audioVars == <<mic_q, cap, fw, play, kbd, gate_log, fw_saw>>
ghostVars == <<ss_log, kw_log, scen, cleared>>

speaking(s) == s.response_active \/ s.response_inflight

(***************************************************************************)
(* The clock.                                                              *)
(***************************************************************************)
\* something can tell the time: a sleeping timer task or a running cooldown
TimeWatched ==
  \/ \E i \in 1..Len(timers) :
       timers[i].pc = "sleep" /\ now < timers[i].at + timers[i].delay
  \/ st.last_cancel_at # None /\ now - st.last_cancel_at < cancel_cooldown_ms

\* ticks nothing could tell apart are left out
Tick ==
  /\ now < MaxTime
  /\ TimeWatched
  /\ now' = now + 1
  /\ UNCHANGED <<st, state_lock, spk_buf, spk_lock, out_q, rx, timers,
                 budget, nCreate, ghostVars, audioVars, meterVars, wireVars, hist>>

(***************************************************************************)
(* Receiver loop (478-671).                                                *)
(***************************************************************************)
\* history: when the last keyword interruption before this message began
LastKeywordCancel == IF kw_log.fired THEN kw_log.at ELSE kw_log.prev_kw

\* history: the stage of the scenario commit, response.create, audio delta,
\* speech_started after the loop takes ev; events that touch neither the
\* flags nor the queues leave the stage alone; the scenario is over with the
\* first message taken after the interruption
ScenAfterEvent(ev) ==
  CASE scen = "interrupted" -> "off"
    [] ev \in SkippedEvents -> scen
    [] ev.type \in {"response.output_item.added", "response.text.delta",
                    "conversation.item.created.assistant",
                    "conversation.item.created.user"} -> scen
    [] ev.type = "response.audio.delta" /\ ev.n = None -> scen
    [] ev.type = "input_audio_buffer.committed" /\ scen = "start" -> "committed"
    [] ev.type = "response.audio.delta" /\ scen \in {"created", "streaming"}
         -> "streaming"
    [] ev.type = "input_audio_buffer.speech_started" /\ scen = "streaming"
         -> "interrupted"
    [] OTHER -> "off"

\* ws_rx.next() yields a message; frames and events nothing handles are
\* dropped, the other handlers start with state_for_rx.lock().unwrap(),
\* which returns once the mutex is free
RxRecv(ev) ==
  /\ rx.pc = "idle"
  /\ budget.ev > 0
  /\ ev \in InboundEvents
  /\ (ev.type = "input_audio_buffer.committed" => Len(timers) < MaxTimers)
  /\ budget' = [budget EXCEPT !.ev = @ - 1]
  /\ IF LocksState(ev)
     THEN /\ state_lock = "free"
          /\ state_lock' = "rx"
          /\ rx' = [pc |-> "locked", ev |-> ev, tgt |-> None]
     ELSE /\ rx' = RxIdle
          /\ UNCHANGED state_lock
  /\ scen' = ScenAfterEvent(ev)
  /\ ss_log' = IF ev.type = "input_audio_buffer.speech_started"
               THEN ss_log ELSE <<>>
  /\ kw_log' = [NoDecision EXCEPT !.prev_kw = LastKeywordCancel]
  /\ UNCHANGED <<st, spk_buf, spk_lock, out_q, now, timers,
                 nCreate, cleared, audioVars, meterVars, wireVars>>
  /\ hist' = [hist EXCEPT !.last_ev = ev.type,
                          !.after_fail = @ \/ snd.pc = "failed"]

\* state_for_rx.lock() inside an interruption sequence (609, 654, 660)
RxLockState ==
  /\ rx.pc \in {"ss_item_lock", "kw_item_lock", "kw_st2_lock"}
  /\ state_lock = "free"
  /\ state_lock' = "rx"
  /\ rx' = [rx EXCEPT !.pc =
              CASE rx.pc = "ss_item_lock" -> "ss_item_locked"
                [] rx.pc = "kw_item_lock" -> "kw_item_locked"
                [] rx.pc = "kw_st2_lock" -> "kw_st2_locked"]
  /\ UNCHANGED <<st, spk_buf, spk_lock, out_q, now, timers,
                 budget, nCreate, ghostVars, audioVars, meterVars, wireVars, hist>>

\* spk_buf_for_rx.lock()
RxLockSpk ==
  /\ rx.pc \in {"ad_spk_lock", "ss_spk_lock", "kw_spk_lock"}
  /\ spk_lock = "free"
  /\ spk_lock' = "rx"
  /\ rx' = [rx EXCEPT !.pc =
              CASE rx.pc = "ad_spk_lock" -> "ad_spk_locked"
                [] rx.pc = "ss_spk_lock" -> "ss_spk_locked"
                [] rx.pc = "kw_spk_lock" -> "kw_spk_locked"]
  /\ UNCHANGED <<st, state_lock, spk_buf, out_q, now, timers,
                 budget, nCreate, ghostVars, audioVars, meterVars, wireVars, hist>>

\* the events whose handler stores an item id (529-541)
ItemEventTypes ==
  {"response.output_item.added", "conversation.item.created.assistant"}

\* a handler that is one critical section on State: st becomes s, the guard
\* is dropped, the loop takes the next message; history: a stored item id is
\* an item of a response requested so far, the nCreate-th at the latest
RxOneSection(type, s) ==
  /\ rx.pc = "locked"
  /\ rx.ev.type = type
  /\ st' = s
  /\ state_lock' = "free"
  /\ rx' = RxIdle
  /\ UNCHANGED <<spk_buf, spk_lock, out_q, now, timers,
                 budget, nCreate, ghostVars, audioVars, meterVars, wireVars>>
  /\ hist' = [hist EXCEPT
       !.item_resp = IF type \in ItemEventTypes THEN nCreate ELSE @,
       !.phase = IF type = "response.done" /\ @ = "outstanding" THEN "idle" ELSE @]

\* input_audio_buffer.committed (506-526): read last_user under the lock,
\* pick the delay, spawn the timer task
RxCommitted ==
  /\ rx.pc = "locked"
  /\ rx.ev.type = "input_audio_buffer.committed"
  /\ timers' = Append(timers, [at |-> now, delay |-> DelayFor(st.last_user),
                               pc |-> "sleep", emitted |-> FALSE])
  /\ state_lock' = "free"
  /\ rx' = RxIdle
  /\ UNCHANGED <<st, spk_buf, spk_lock, out_q, now, budget, nCreate, ghostVars, audioVars, meterVars, wireVars, hist>>

\* response.output_item.added (529-534)
RxOutputItemAdded ==
  RxOneSection("response.output_item.added",
               [st EXCEPT !.last_assistant_item_id = rx.ev.id])

\* conversation.item.created, role assistant (535-541)
RxItemCreatedAssistant ==
  RxOneSection("conversation.item.created.assistant",
               [st EXCEPT !.last_assistant_item_id = rx.ev.id])

\* conversation.item.created, role user (542-552)
RxItemCreatedUser ==
  RxOneSection("conversation.item.created.user",
               [st EXCEPT !.last_user = rx.ev.text])

\* response.audio.delta, first section (565-568)
RxAudioDeltaActive ==
  /\ rx.pc = "locked"
  /\ rx.ev.type = "response.audio.delta"
  /\ st' = [st EXCEPT !.response_active = TRUE]
  /\ state_lock' = "free"
  /\ rx' = [rx EXCEPT !.pc = "ad_spk_lock"]
  /\ UNCHANGED <<spk_buf, spk_lock, out_q, now, timers,
                 budget, nCreate, ghostVars, audioVars, meterVars, wireVars, hist>>

\* response.audio.delta, second section (569-572): rb.extend(samples)
RxAudioDeltaPush ==
  /\ rx.pc = "ad_spk_locked"
  /\ spk_buf' = spk_buf \o [i \in 1..rx.ev.n |-> rx.ev.resp]
  /\ spk_lock' = "free"
  /\ rx' = RxIdle
  /\ UNCHANGED <<st, state_lock, out_q, now, timers,
                 budget, nCreate, ghostVars, audioVars, meterVars, wireVars>>
  /\ hist' = [hist EXCEPT !.fifo = @ \o [i \in 1..rx.ev.n |-> rx.ev.resp]]

\* response.audio.done (575-579)
RxAudioDone ==
  RxOneSection("response.audio.done",
               [st EXCEPT !.response_active = FALSE, !.response_inflight = FALSE])

\* response.text.delta (582-589): last_assistant.push_str(delta); the field
\* is only printed, so it is not kept here
RxTextDelta == RxOneSection("response.text.delta", st)

\* response.text.done (590-593)
RxTextDone ==
  RxOneSection("response.text.done", [st EXCEPT !.response_inflight = FALSE])

\* response.done (594-598)
RxResponseDone ==
  RxOneSection("response.done",
               [st EXCEPT !.response_active = FALSE, !.response_inflight = FALSE])

\* conversation.item.input_audio_transcription.completed (623-630)
RxTranscriptionCompleted ==
  RxOneSection("conversation.item.input_audio_transcription.completed",
               [st EXCEPT !.last_user = rx.ev.text, !.last_user_partial = <<>>])


\* outbound messages; by names the sending context (history, not on the wire)
Msg(type, by) ==
  [type |-> type, item_id |-> None, content_index |-> None,
   audio_end_ms |-> None, by |-> by]

TruncateMsg(item, by) ==
  [type |-> "conversation.item.truncate", item_id |-> item,
   content_index |-> 0, audio_end_ms |-> 0, by |-> by]

\* history: the last two entries of a log
LastTwo(log) == IF Len(log) > 2 THEN SubSeq(log, Len(log) - 1, Len(log)) ELSE log

\* history: the newest entry of ss_log with field f changed to v
SsNote(f, v) == [ss_log EXCEPT ![Len(ss_log)] = [@ EXCEPT ![f] = v]]

(***************************************************************************)
(* input_audio_buffer.speech_started (601-620).                            *)
(***************************************************************************)
\* the handler without the test of line 603: it interrupts whether or not a
\* response is active or inflight
RxSpeechStartedUnguarded ==
  /\ rx.pc = "locked"
  /\ rx.ev.type = "input_audio_buffer.speech_started"
  /\ LET s2 == [st EXCEPT !.response_active = FALSE,
                          !.response_inflight = FALSE,
                          !.last_cancel_at = now]
     IN  /\ st' = s2
         /\ ss_log' = LastTwo(Append(ss_log,
                        [spk |-> speaking(st), cancels |-> 0, truncs |-> 0,
                         had_item |-> FALSE, changed |-> (s2 # st)]))
  /\ state_lock' = "free"
  /\ rx' = [rx EXCEPT !.pc = "ss_cancel", !.tgt = nCreate]
  /\ UNCHANGED <<spk_buf, spk_lock, out_q, now, timers, budget, nCreate,
                 kw_log, scen, cleared, audioVars, meterVars, wireVars>>
  /\ hist' = [hist EXCEPT !.phase = "interrupting"]

\* 602-607: under the lock, clear the flags and stamp last_cancel_at if a
\* response is active or inflight, then drop the guard
RxSpeechStarted ==
  /\ rx.pc = "locked"
  /\ rx.ev.type = "input_audio_buffer.speech_started"
  /\ LET s2 == IF speaking(st)
               THEN [st EXCEPT !.response_active = FALSE,
                               !.response_inflight = FALSE,
                               !.last_cancel_at = now]
               ELSE st
     IN  /\ st' = s2
         /\ ss_log' = LastTwo(Append(ss_log,
                        [spk |-> speaking(st), cancels |-> 0, truncs |-> 0,
                         had_item |-> FALSE, changed |-> (s2 # st)]))
  /\ state_lock' = "free"
  /\ rx' = IF speaking(st)
           THEN [rx EXCEPT !.pc = "ss_cancel", !.tgt = nCreate]
           ELSE RxIdle
  /\ UNCHANGED <<spk_buf, spk_lock, out_q, now, timers, budget, nCreate,
                 kw_log, scen, cleared, audioVars, meterVars, wireVars>>
  /\ hist' = [hist EXCEPT !.phase = IF speaking(st) THEN "interrupting" ELSE @]

\* 608: out_tx.send(response.cancel)
RxSsCancel ==
  /\ rx.pc = "ss_cancel"
  /\ out_q' = Append(out_q, Msg("response.cancel", "rx"))
  /\ rx' = [rx EXCEPT !.pc = "ss_item_lock"]
  /\ ss_log' = SsNote("cancels", ss_log[Len(ss_log)].cancels + 1)
  /\ UNCHANGED <<st, state_lock, spk_buf, spk_lock, now, timers, budget,
                 nCreate, kw_log, scen, cleared, audioVars, meterVars, wireVars, hist>>

\* 609-616: the guard of the if-let scrutinee lives to the end of the
\* if-let, so the truncate is sent with State locked
RxSsTruncate ==
  /\ rx.pc = "ss_item_locked"
  /\ out_q' = IF st.last_assistant_item_id # None
              THEN Append(out_q, TruncateMsg(st.last_assistant_item_id, "rx"))
              ELSE out_q
  /\ ss_log' = IF st.last_assistant_item_id # None
               THEN [ss_log EXCEPT ![Len(ss_log)] =
                       [@ EXCEPT !.truncs = @ + 1, !.had_item = TRUE]]
               ELSE ss_log
  /\ state_lock' = "free"
  /\ rx' = [rx EXCEPT !.pc = "ss_spk_lock"]
  /\ UNCHANGED <<st, spk_buf, spk_lock, now, timers, budget, nCreate,
                 kw_log, scen, cleared, audioVars, meterVars, wireVars, hist>>

\* lines 617-618 without q.clear(): the buffer is locked and released as is
RxSsNoClear ==
  /\ rx.pc = "ss_spk_locked"
  /\ spk_buf' = spk_buf
  /\ spk_lock' = "free"
  /\ cleared' = cleared
  /\ ss_log' = ss_log
  /\ rx' = RxIdle
  /\ UNCHANGED <<st, state_lock, out_q, now, timers, budget, nCreate,
                 kw_log, scen, audioVars, meterVars, wireVars>>
  /\ hist' = [hist EXCEPT !.phase = IF @ = "interrupting" THEN "interrupted" ELSE @]

\* 617-618: q.clear()
RxSsClear ==
  /\ rx.pc = "ss_spk_locked"
  /\ spk_buf' = <<>>
  /\ spk_lock' = "free"
  /\ cleared' = IF rx.tgt = 0 THEN cleared ELSE cleared \cup {rx.tgt}
  /\ ss_log' = SsNote("changed", ss_log[Len(ss_log)].changed \/ spk_buf # <<>>)
  /\ rx' = RxIdle
  /\ UNCHANGED <<st, state_lock, out_q, now, timers, budget, nCreate,
                 kw_log, scen, audioVars, meterVars, wireVars>>
  /\ hist' = [hist EXCEPT !.fifo = <<>>,
                          !.phase = IF @ = "interrupting" THEN "interrupted" ELSE @]

(***************************************************************************)
(* conversation.item.input_audio_transcription.delta (633-667).            *)
(***************************************************************************)
\* line 639-642 without the cooldown: every moment is past it
cooldown_always(last_cancel_at, t) == TRUE

\* now.duration_since(t) >= cancel_cooldown_ms, true when there is no t
cooldown_ok(last_cancel_at, t) ==
  last_cancel_at = None \/ t - last_cancel_at >= cancel_cooldown_ms

\* 635-651: push the delta, decide; on a keyword while speaking and past
\* the cooldown stamp last_cancel_at and drop the guard, the flags stay set
RxTranscriptionDelta ==
  /\ rx.pc = "locked"
  /\ rx.ev.type = "conversation.item.input_audio_transcription.delta"
  /\ LET partial == st.last_user_partial \o rx.ev.text
         fire == /\ speaking(st)
                 /\ cooldown_ok(st.last_cancel_at, now)
                 /\ contains_hot(partial)
     IN  /\ st' = [st EXCEPT !.last_user_partial = partial,
                             !.last_cancel_at = IF fire THEN now ELSE @]
         /\ rx' = IF fire THEN [rx EXCEPT !.pc = "kw_cancel", !.tgt = nCreate]
                          ELSE RxIdle
         /\ kw_log' = [hot |-> contains_hot(partial),
                       cool |-> cooldown_ok(st.last_cancel_at, now),
                       spk |-> speaking(st), fired |-> fire, at |-> now,
                       last_cancel |-> st.last_cancel_at,
                       prev_kw |-> LastKeywordCancel]
  /\ state_lock' = "free"
  /\ UNCHANGED <<spk_buf, spk_lock, out_q, now, timers, budget, nCreate,
                 ss_log, scen, cleared, audioVars, meterVars, wireVars>>
  /\ hist' = [hist EXCEPT !.phase =
                IF rx'.pc = "kw_cancel" THEN "interrupting" ELSE @]

\* 652-653: out_tx.send(response.cancel)
RxKwCancel ==
  /\ rx.pc = "kw_cancel"
  /\ out_q' = Append(out_q, Msg("response.cancel", "rx"))
  /\ rx' = [rx EXCEPT !.pc = "kw_item_lock"]
  /\ UNCHANGED <<st, state_lock, spk_buf, spk_lock, now, timers, budget,
                 nCreate, ghostVars, audioVars, meterVars, wireVars, hist>>

\* 654-658: truncate, sent with State locked by the if-let scrutinee
RxKwTruncate ==
  /\ rx.pc = "kw_item_locked"
  /\ out_q' = IF st.last_assistant_item_id # None
              THEN Append(out_q, TruncateMsg(st.last_assistant_item_id, "rx"))
              ELSE out_q
  /\ state_lock' = "free"
  /\ rx' = [rx EXCEPT !.pc = "kw_spk_lock"]
  /\ UNCHANGED <<st, spk_buf, spk_lock, now, timers, budget, nCreate,
                 ghostVars, audioVars, meterVars, wireVars, hist>>

\* 659: if let Ok(mut q) = spk_buf_for_rx.lock() { q.clear(); }
RxKwClear ==
  /\ rx.pc = "kw_spk_locked"
  /\ spk_buf' = <<>>
  /\ spk_lock' = "free"
  /\ cleared' = IF rx.tgt = 0 THEN cleared ELSE cleared \cup {rx.tgt}
  /\ rx' = [rx EXCEPT !.pc = "kw_st2_lock"]
  /\ UNCHANGED <<st, state_lock, out_q, now, timers, budget, nCreate,
                 ss_log, kw_log, scen, audioVars, meterVars, wireVars>>
  /\ hist' = [hist EXCEPT !.fifo = <<>>]

\* 660-665: second critical section, the flags and the partial are cleared
RxKwFinish ==
  /\ rx.pc = "kw_st2_locked"
  /\ st' = [st EXCEPT !.last_user_partial = <<>>,
                      !.response_active = FALSE,
                      !.response_inflight = FALSE]
  /\ state_lock' = "free"
  /\ rx' = RxIdle
  /\ UNCHANGED <<spk_buf, spk_lock, out_q, now, timers, budget, nCreate,
                 ghostVars, audioVars, meterVars, wireVars>>
  /\ hist' = [hist EXCEPT !.phase = IF @ = "interrupting" THEN "interrupted" ELSE @]

(***************************************************************************)
(* Timer task spawned on commit (518-525).                                 *)
(***************************************************************************)
\* the sleep is over (not before at + delay) and st_arc.lock() succeeds
TimerLock(i) ==
  /\ timers[i].pc = "sleep"
  /\ now >= timers[i].at + timers[i].delay
  /\ state_lock = "free"
  /\ state_lock' = "timer"
  /\ timers' = [timers EXCEPT ![i].pc = "locked"]
  /\ UNCHANGED <<st, spk_buf, spk_lock, out_q, now, rx, budget, nCreate,
                 ghostVars, audioVars, meterVars, wireVars, hist>>

\* whether the timer task may request a response (521)
TimerMayCreate(s) == ~s.response_inflight /\ ~s.response_active

\* lines 521-525 without line 522: response.create is sent and
\* response_inflight is left as it is
TimerFireNoFlag(i) ==
  /\ timers[i].pc = "locked"
  /\ IF TimerMayCreate(st)
     THEN /\ st' = st
          /\ out_q' = Append(out_q, Msg("response.create", "timer"))
          /\ nCreate' = nCreate + 1
          /\ scen' = IF scen = "committed" THEN "created" ELSE "off"
     ELSE UNCHANGED <<st, out_q, nCreate, scen>>
  /\ timers' = [timers EXCEPT ![i].pc = "done",
                              ![i].emitted = TimerMayCreate(st)]
  /\ state_lock' = "free"
  /\ UNCHANGED <<spk_buf, spk_lock, now, rx, budget, ss_log, kw_log,
                 cleared, audioVars, meterVars, wireVars>>
  /\ hist' = [hist EXCEPT !.was_inflight = @ \/ st'.response_inflight,
                          !.phase = IF TimerMayCreate(st) THEN "outstanding" ELSE @]

\* 521-525: check the flags, set response_inflight, send response.create,
\* all under the lock
TimerFire(i) ==
  /\ timers[i].pc = "locked"
  /\ IF TimerMayCreate(st)
     THEN /\ st' = [st EXCEPT !.response_inflight = TRUE]
          /\ out_q' = Append(out_q, Msg("response.create", "timer"))
          /\ nCreate' = nCreate + 1
          /\ scen' = IF scen = "committed" THEN "created" ELSE "off"
     ELSE UNCHANGED <<st, out_q, nCreate, scen>>
  /\ timers' = [timers EXCEPT ![i].pc = "done",
                              ![i].emitted = TimerMayCreate(st)]
  /\ state_lock' = "free"
  /\ UNCHANGED <<spk_buf, spk_lock, now, rx, budget, ss_log, kw_log,
                 cleared, audioVars, meterVars, wireVars>>
  /\ hist' = [hist EXCEPT !.was_inflight = @ \/ st'.response_inflight,
                          !.phase = IF TimerMayCreate(st) THEN "outstanding" ELSE @]

(***************************************************************************)
(* Capture callback, I16 input stream (191-207).  One call delivers one    *)
(* chunk; the F32 and U16 streams convert first and then do the same.      *)
(***************************************************************************)
Chunks == { <<7208>>, <<-7209, 0>> }

coreVars == <<st, state_lock, spk_buf, spk_lock, out_q, now, rx, timers,
              budget, nCreate, ghostVars>>

\* 194-195: the callback runs on a chunk and locks State for the meter
CapCall(c) ==
  /\ cap.pc = "idle"
  /\ budget.chunks > 0
  /\ c \in Chunks
  /\ state_lock = "free"
  /\ state_lock' = "cap"
  /\ budget' = [budget EXCEPT !.chunks = @ - 1]
  /\ cap' = [pc |-> "locked", chunk |-> c]
  /\ UNCHANGED <<st, spk_buf, spk_lock, out_q, now, rx, timers, nCreate,
                 ghostVars, mic_q, fw, play, kbd, gate_log, fw_saw, meterVars, wireVars, hist>>

\* 196-198: mic_level and mic_bytes are written (meters, not kept here) and
\* the guard is dropped
CapMeter ==
  /\ cap.pc = "locked"
  /\ state_lock' = "free"
  /\ cap' = [cap EXCEPT !.pc = "send"]
  /\ UNCHANGED <<st, spk_buf, spk_lock, out_q, now, rx, timers, budget,
                 nCreate, ghostVars, mic_q, fw, play, kbd, gate_log, fw_saw,
                 meterVars, wireVars, hist>>

\* 205: mic_tx_clone.send(bytes)
CapSend ==
  /\ cap.pc = "send"
  /\ mic_q' = Append(mic_q, cap.chunk)
  /\ cap' = [pc |-> "idle", chunk |-> <<>>]
  /\ UNCHANGED <<coreVars, fw, play, kbd, gate_log, fw_saw, meterVars, wireVars, hist>>

(***************************************************************************)
(* Mic forwarding thread with the onset gate (392-426).                    *)
(***************************************************************************)
\* lines 415 and 418 without the resets: the counter only ever grows
GateCountNoReset(spk, peak, cnt) ==
  IF spk /\ AtLeastOnsetPeak(peak) THEN cnt + 1 ELSE cnt

\* 415 and 418: the counter after a chunk of level peak examined with the
\* speaking flag spk
GateCount(spk, peak, cnt) ==
  IF spk THEN (IF AtLeastOnsetPeak(peak) THEN cnt + 1 ELSE 0)
         ELSE 0

\* 416: the chunk is forwarded unless speaking with the counter below the
\* minimum; cnt is the counter after GateCount
GateForward(spk, cnt) == ~(spk /\ cnt < onset_min_chunks)

\* the receiver loop is inside a keyword interruption with State unlocked:
\* last_cancel_at is stamped, the flags are not cleared yet
RxMidKeyword ==
  rx.pc \in {"kw_cancel", "kw_item_lock", "kw_spk_lock", "kw_spk_locked",
             "kw_st2_lock"}

\* 394-404: mic_rx.recv() returns a chunk, its peak is computed, State is
\* locked for the meter
FwRecv ==
  /\ fw.pc = "recv"
  /\ mic_q # <<>>
  /\ state_lock = "free"
  /\ state_lock' = "fw"
  /\ mic_q' = Tail(mic_q)
  /\ fw' = [fw EXCEPT !.pc = "meter_locked", !.bytes = Head(mic_q),
                      !.peak = chunk_peak_level_i16(Head(mic_q))]
  /\ UNCHANGED <<st, spk_buf, spk_lock, out_q, now, rx, timers, budget,
                 nCreate, ghostVars, cap, play, kbd, gate_log, fw_saw,
                 meterVars, wireVars, hist>>

\* 405-407: the meter is written, the guard dropped
FwMeter ==
  /\ fw.pc = "meter_locked"
  /\ state_lock' = "free"
  /\ fw' = [fw EXCEPT !.pc = "speak_lock"]
  /\ UNCHANGED <<st, spk_buf, spk_lock, out_q, now, rx, timers, budget,
                 nCreate, ghostVars, mic_q, cap, play, kbd, gate_log, fw_saw,
                 meterVars, wireVars, hist>>

\* 410-411: state_for_mic.lock()
FwLockState ==
  /\ fw.pc = "speak_lock"
  /\ state_lock = "free"
  /\ state_lock' = "fw"
  /\ fw' = [fw EXCEPT !.pc = "speak_locked"]
  /\ UNCHANGED <<st, spk_buf, spk_lock, out_q, now, rx, timers, budget,
                 nCreate, ghostVars, mic_q, cap, play, kbd, gate_log, fw_saw,
                 meterVars, wireVars, hist>>

\* 412-419: read response_active || response_inflight, drop the guard, run
\* the gate; a chunk that is not forwarded ends the iteration (continue)
FwReadSpeaking ==
  /\ fw.pc = "speak_locked"
  /\ LET spk == speaking(st)
         cnt == GateCount(spk, fw.peak, fw.loud_consecutive)
     IN  /\ fw' = IF GateForward(spk, cnt)
                  THEN [fw EXCEPT !.pc = "send", !.loud_consecutive = cnt]
                  ELSE FwIdle(cnt)
         /\ gate_log' = Append(gate_log,
                          [spk |-> spk, loud |-> AtLeastOnsetPeak(fw.peak),
                           sent |-> FALSE])
         /\ fw_saw' = [speaking |-> spk, mid_keyword |-> RxMidKeyword]
  /\ state_lock' = "free"
  /\ UNCHANGED <<st, spk_buf, spk_lock, out_q, now, rx, timers, budget,
                 nCreate, ghostVars, mic_q, cap, play, kbd, meterVars, wireVars, hist>>

\* 422-424: out_tx_audio.send(input_audio_buffer.append)
FwSend ==
  /\ fw.pc = "send"
  /\ out_q' = Append(out_q, Msg("input_audio_buffer.append", "fw"))
  /\ gate_log' = [gate_log EXCEPT ![Len(gate_log)].sent = TRUE]
  /\ fw' = FwIdle(fw.loud_consecutive)
  /\ UNCHANGED <<st, state_lock, spk_buf, spk_lock, now, rx, timers, budget,
                 nCreate, ghostVars, mic_q, cap, play, kbd, fw_saw, meterVars, wireVars, hist>>

(***************************************************************************)
(* Playback callback, I16 output stream (267-282).                         *)
(***************************************************************************)
\* history: the playback ring buffer as the abstract FIFO of its contract;
\* FifoTake is what pull(n) must return, FifoDrop what it must leave
FifoTake(q, n) == [i \in 1..n |-> IF i <= Len(q) THEN q[i] ELSE 0]

FifoDrop(q, n) ==
  [i \in 1..(IF Len(q) > n THEN Len(q) - n ELSE 0) |-> q[i + n]]

RECURSIVE Zeros(_)
Zeros(n) == IF n <= 0 THEN <<>> ELSE <<0>> \o Zeros(n - 1)

\* lines 271-273 with pop_back() for pop_front(): the newest samples first
PullNewest(buf, n) ==
  IF Len(buf) >= n THEN SubSeq(buf, Len(buf) - n + 1, Len(buf))
  ELSE buf \o Zeros(n - Len(buf))

\* 271-273: n times pop_front().unwrap_or(0)
Pull(buf, n) ==
  IF Len(buf) >= n THEN SubSeq(buf, 1, n) ELSE buf \o Zeros(n - Len(buf))

AfterPull(buf, n) ==
  IF Len(buf) >= n THEN SubSeq(buf, n + 1, Len(buf)) ELSE <<>>

\* the device calls the callback with an output slice of n samples
PlayCall(n) ==
  /\ play.pc = "idle"
  /\ budget.pulls > 0
  /\ n \in 1..MaxPullLen
  /\ budget' = [budget EXCEPT !.pulls = @ - 1]
  /\ play' = [pc |-> "spk_lock", n |-> n, out |-> <<>>]
  /\ UNCHANGED <<st, state_lock, spk_buf, spk_lock, out_q, now, rx, timers,
                 nCreate, ghostVars, mic_q, cap, fw, kbd, gate_log, fw_saw,
                 meterVars, wireVars, hist>>

\* 270: spk_buf_for_out.lock().unwrap(); the guard lives to the end of the
\* closure
PlayLockSpk ==
  /\ play.pc = "spk_lock"
  /\ spk_lock = "free"
  /\ spk_lock' = "play"
  /\ play' = [play EXCEPT !.pc = "spk_locked"]
  /\ UNCHANGED <<st, state_lock, spk_buf, out_q, now, rx, timers, budget,
                 nCreate, ghostVars, mic_q, cap, fw, kbd, gate_log, fw_saw,
                 meterVars, wireVars, hist>>

\* 271-275: fill the slice from the buffer, zeros on underrun
PlayPull ==
  /\ play.pc = "spk_locked"
  /\ spk_buf' = AfterPull(spk_buf, play.n)
  /\ play' = [play EXCEPT !.pc = "state_lock", !.out = Pull(spk_buf, play.n)]
  /\ UNCHANGED <<st, state_lock, spk_lock, out_q, now, rx, timers, budget,
                 nCreate, ghostVars, mic_q, cap, fw, kbd, gate_log, fw_saw,
                 meterVars, wireVars>>
  /\ hist' = [hist EXCEPT !.fifo = FifoDrop(@, play.n),
                          !.expect = FifoTake(hist.fifo, play.n)]

\* 276: state_for_out.lock(), with the spk_buf guard still held
PlayLockState ==
  /\ play.pc = "state_lock"
  /\ state_lock = "free"
  /\ state_lock' = "play"
  /\ play' = [play EXCEPT !.pc = "both_locked"]
  /\ UNCHANGED <<st, spk_buf, spk_lock, out_q, now, rx, timers, budget,
                 nCreate, ghostVars, mic_q, cap, fw, kbd, gate_log, fw_saw,
                 meterVars, wireVars, hist>>

\* 277-280: the meter is written, then both guards are dropped
PlayMeter ==
  /\ play.pc = "both_locked"
  /\ state_lock' = "free"
  /\ spk_lock' = "free"
  /\ play' = [play EXCEPT !.pc = "idle"]
  /\ UNCHANGED <<st, spk_buf, out_q, now, rx, timers, budget,
                 nCreate, ghostVars, mic_q, cap, fw, kbd, gate_log, fw_saw,
                 meterVars, wireVars, hist>>

(***************************************************************************)
(* Keyboard thread, key I (442-463).                                       *)
(***************************************************************************)
\* 443-445: I is pressed, response.cancel is sent
KbdInterrupt ==
  /\ kbd.pc = "idle"
  /\ budget.keys > 0
  /\ budget' = [budget EXCEPT !.keys = @ - 1]
  /\ out_q' = Append(out_q, Msg("response.cancel", "kbd"))
  /\ kbd' = [pc |-> "item_lock"]
  /\ UNCHANGED <<st, state_lock, spk_buf, spk_lock, now, rx, timers,
                 nCreate, ghostVars, mic_q, cap, fw, play, gate_log, fw_saw,
                 meterVars, wireVars>>
  /\ hist' = [hist EXCEPT !.phase = "interrupting"]

\* 447: state_ctrl.lock().unwrap()
KbdLockState ==
  /\ kbd.pc = "item_lock"
  /\ state_lock = "free"
  /\ state_lock' = "kbd"
  /\ kbd' = [pc |-> "item_locked"]
  /\ UNCHANGED <<st, spk_buf, spk_lock, out_q, now, rx, timers, budget,
                 nCreate, ghostVars, mic_q, cap, fw, play, gate_log, fw_saw,
                 meterVars, wireVars, hist>>

\* lines 446-458 with the State guard kept past the if-let: the thread goes
\* on to lock spk_buf with State still locked
KbdTruncateKeepsState ==
  /\ kbd.pc = "item_locked"
  /\ out_q' = IF st.last_assistant_item_id # None
              THEN Append(out_q, TruncateMsg(st.last_assistant_item_id, "kbd"))
              ELSE out_q
  /\ state_lock' = state_lock
  /\ kbd' = [pc |-> "spk_lock"]
  /\ UNCHANGED <<st, spk_buf, spk_lock, now, rx, timers, budget,
                 nCreate, ghostVars, mic_q, cap, fw, play, gate_log, fw_saw,
                 meterVars, wireVars, hist>>

\* 446-458: the truncate is sent with State locked by the if-let scrutinee
KbdTruncate ==
  /\ kbd.pc = "item_locked"
  /\ out_q' = IF st.last_assistant_item_id # None
              THEN Append(out_q, TruncateMsg(st.last_assistant_item_id, "kbd"))
              ELSE out_q
  /\ state_lock' = "free"
  /\ kbd' = [pc |-> "spk_lock"]
  /\ UNCHANGED <<st, spk_buf, spk_lock, now, rx, timers, budget,
                 nCreate, ghostVars, mic_q, cap, fw, play, gate_log, fw_saw,
                 meterVars, wireVars, hist>>

\* 459: spk_buf_ctrl.lock()
KbdLockSpk ==
  /\ kbd.pc = "spk_lock"
  /\ spk_lock = "free"
  /\ spk_lock' = "kbd"
  /\ kbd' = [pc |-> "spk_locked"]
  /\ UNCHANGED <<st, state_lock, spk_buf, out_q, now, rx, timers, budget,
                 nCreate, ghostVars, mic_q, cap, fw, play, gate_log, fw_saw,
                 meterVars, wireVars, hist>>

\* 460-461: q.clear()
KbdClear ==
  /\ kbd.pc = "spk_locked"
  /\ spk_buf' = <<>>
  /\ spk_lock' = "free"
  /\ kbd' = [pc |-> "idle"]
  /\ UNCHANGED <<st, state_lock, out_q, now, rx, timers, budget,
                 nCreate, ghostVars, mic_q, cap, fw, play, gate_log, fw_saw,
                 meterVars, wireVars>>
  /\ hist' = [hist EXCEPT !.fifo = <<>>]

(***************************************************************************)
(* send_task (380-387): the one consumer of the outbound channel.  out_q   *)
(* is every message sent on a clone of out_tx, in send order; the          *)
(* unbounded channel hands them to out_rx.recv() oldest first, so the next *)
(* message is the one after those already taken.                           *)
(***************************************************************************)
\* a channel that hands out the newest message instead of the oldest
NextOutNewest(q, k) == q[Len(q)]

\* the message out_rx.recv() returns after k messages were taken
NextOut(q, k) == q[k + 1]

\* 381: out_rx.recv().await returns the next message
SendRecv ==
  /\ snd.pc = "recv"
  /\ Len(wire) < Len(out_q)
  /\ snd' = [pc |-> "write", msg |-> NextOut(out_q, Len(wire))]
  /\ UNCHANGED <<coreVars, audioVars, meterVars, wire, main_pc, hist>>

\* 382: ws_tx.send(msg).await is Ok
SendWrite ==
  /\ snd.pc = "write"
  /\ wire' = Append(wire, snd.msg)
  /\ snd' = SndIdle
  /\ UNCHANGED <<coreVars, audioVars, meterVars, main_pc, hist>>

\* 382-385: ws_tx.send(msg).await is Err: the error is printed and the task
\* ends (break); nothing else is told
SendFail ==
  /\ snd.pc = "write"
  /\ snd' = [pc |-> "failed", msg |-> NoEv]
  /\ UNCHANGED <<coreVars, audioVars, meterVars, wire, main_pc, hist>>

\* 478-485: ws_rx.next() yields None or Err, the receiver loop ends
RxClosed ==
  /\ rx.pc = "idle"
  /\ rx' = [RxIdle EXCEPT !.pc = "closed"]
  /\ UNCHANGED <<st, state_lock, spk_buf, spk_lock, out_q, now, timers,
                 budget, nCreate, ghostVars, audioVars, meterVars, wireVars,
                 hist>>

\* the contexts that hold a clone of out_tx: the main task until it drops
\* it (673), the forwarding thread and the keyboard thread, whose loops
\* never end while the process runs (393-425, 435-467), and every timer
\* task that has not finished (507, 518-525)
SendersAlive ==
  (IF main_pc = "loop" THEN { <<"main", 0>> } ELSE {})
    \cup { <<"fw", 0>>, <<"kbd", 0>> }
    \cup { <<"timer", i>> : i \in { j \in 1..Len(timers) : timers[j].pc # "done" } }

\* send_task has ended: a write failed (break, 384), or out_rx.recv()
\* returned None, which the channel does once it is empty and every sender
\* is dropped
SendTaskOver ==
  \/ snd.pc = "failed"
  \/ snd.pc = "recv" /\ Len(wire) = Len(out_q) /\ SendersAlive = {}

\* 673: drop(out_tx), then the main task waits in send_task.await
MainDrop ==
  /\ rx.pc = "closed"
  /\ main_pc = "loop"
  /\ main_pc' = "await"
  /\ UNCHANGED <<coreVars, audioVars, meterVars, snd, wire, hist>>

\* 674-677: send_task.await returns, "Connection closed.", main returns
MainJoin ==
  /\ main_pc = "await"
  /\ SendTaskOver
  /\ main_pc' = "done"
  /\ UNCHANGED <<coreVars, audioVars, meterVars, snd, wire, hist>>

(***************************************************************************)
(* The turn-taking core: receiver loop, timer tasks, clock.                *)
(***************************************************************************)
RxStep ==
  \/ RxLockState
  \/ RxLockSpk
  \/ RxCommitted
  \/ RxOutputItemAdded
  \/ RxItemCreatedAssistant
  \/ RxItemCreatedUser
  \/ RxAudioDeltaActive
  \/ RxAudioDeltaPush
  \/ RxAudioDone
  \/ RxTextDelta
  \/ RxTextDone
  \/ RxResponseDone
  \/ RxTranscriptionCompleted
  \/ RxSpeechStarted
  \/ RxSsCancel
  \/ RxSsTruncate
  \/ RxSsClear
  \/ RxTranscriptionDelta
  \/ RxKwCancel
  \/ RxKwTruncate
  \/ RxKwClear
  \/ RxKwFinish

Next ==
  \/ \E ev \in InboundEvents : RxRecv(ev)
  \/ RxStep
  \/ \E i \in 1..Len(timers) : TimerLock(i)
  \/ \E i \in 1..Len(timers) : TimerFire(i)
  \/ Tick

Spec == Init /\ [][Next]_vars


(***************************************************************************)
(* The capture gate: capture callback and forwarding thread, beside the    *)
(* receiver loop and timer tasks that set and clear the flags the gate     *)
(* reads.                                                                  *)
(***************************************************************************)
GateEvents ==
  { ev \in InboundEvents :
      ev.type \in {"input_audio_buffer.committed", "response.done",
                   "conversation.item.input_audio_transcription.delta"} }

CapStep ==
  \/ \E c \in Chunks : CapCall(c)
  \/ CapMeter
  \/ CapSend

FwStep ==
  \/ FwRecv
  \/ FwMeter
  \/ FwLockState
  \/ FwReadSpeaking
  \/ FwSend

InitGate ==
  /\ InitProgram
  /\ InitAudio
  /\ InitMeter
  /\ InitWire
  /\ hist = InitHist
  /\ budget = Budget(MaxGateEvents, MaxChunks, 0, 0)

NextGate ==
  \/ \E ev \in GateEvents : RxRecv(ev)
  \/ RxLockState
  \/ RxLockSpk
  \/ RxCommitted
  \/ RxResponseDone
  \/ RxTranscriptionDelta
  \/ RxKwCancel
  \/ RxKwTruncate
  \/ RxKwClear
  \/ RxKwFinish
  \/ \E i \in 1..Len(timers) : TimerLock(i)
  \/ \E i \in 1..Len(timers) : TimerFire(i)
  \/ Tick
  \/ CapStep
  \/ FwStep

SpecGate == InitGate /\ [][NextGate]_vars

(***************************************************************************)
(* The two mutexes: every context that locks State or spk_buf.             *)
(***************************************************************************)
LockEvents ==
  { ev \in InboundEvents :
      \/ ev.type = "input_audio_buffer.speech_started"
      \/ ev.type = "response.audio.delta" /\ ev.n = 1
      \/ ev.type = "conversation.item.input_audio_transcription.delta"
           /\ ev.text = <<"S", "t", "o", "p">> }

PlayStep ==
  \/ \E n \in 1..MaxPullLen : PlayCall(n)
  \/ PlayLockSpk
  \/ PlayPull
  \/ PlayLockState
  \/ PlayMeter

KbdStep ==
  \/ KbdInterrupt
  \/ KbdLockState
  \/ KbdTruncate
  \/ KbdLockSpk
  \/ KbdClear

RxLockedStep ==
  \/ RxLockState
  \/ RxLockSpk
  \/ RxAudioDeltaActive
  \/ RxAudioDeltaPush
  \/ RxSpeechStarted
  \/ RxSsCancel
  \/ RxSsTruncate
  \/ RxSsClear
  \/ RxTranscriptionDelta
  \/ RxKwCancel
  \/ RxKwTruncate
  \/ RxKwClear
  \/ RxKwFinish

\* The lock specification starts where the core stands after two commits
\* at time 0 and the first timer task's response.create (a state Spec
\* reaches, see LockStart): a response is inflight, the second timer task
\* is due.
LockStart ==
  /\ st = [InitState EXCEPT !.response_inflight = TRUE]
  /\ state_lock = "free"
  /\ spk_buf = <<>>
  /\ spk_lock = "free"
  /\ out_q = << Msg("response.create", "timer") >>
  /\ now = resp_delay_long_ms
  /\ rx = RxIdle
  /\ timers = << [at |-> 0, delay |-> resp_delay_long_ms, pc |-> "done",
                  emitted |-> TRUE],
                 [at |-> 0, delay |-> resp_delay_long_ms, pc |-> "sleep",
                  emitted |-> FALSE] >>
  /\ nCreate = 1
  /\ ss_log = <<>>
  /\ kw_log = NoDecision
  /\ scen = "off"
  /\ cleared = {}

InitLock ==
  /\ LockStart
  /\ InitAudio
  /\ InitMeter
  /\ InitWire
  /\ hist = [InitHist EXCEPT !.was_inflight = TRUE,
                             !.last_ev = "input_audio_buffer.committed",
                             !.phase = "outstanding"]
  /\ budget = Budget(MaxLockEvents, MaxLockChunks, MaxPulls, MaxKeys)

NextLock ==
  \/ \E ev \in LockEvents : RxRecv(ev)
  \/ RxLockedStep
  \/ \E i \in 1..Len(timers) : TimerLock(i)
  \/ \E i \in 1..Len(timers) : TimerFire(i)
  \/ CapStep
  \/ FwStep
  \/ PlayStep
  \/ KbdStep

SpecLock == InitLock /\ [][NextLock]_vars

\* Fair scheduling: as long as some context can take a step of its own (a
\* mutex acquisition, a critical section, a send), some context does.
LockInternalStep ==
  \/ RxLockedStep
  \/ \E i \in 1..Len(timers) : TimerLock(i)
  \/ \E i \in 1..Len(timers) : TimerFire(i)
  \/ CapMeter
  \/ CapSend
  \/ FwStep
  \/ PlayLockSpk
  \/ PlayPull
  \/ PlayLockState
  \/ PlayMeter
  \/ KbdLockState
  \/ KbdTruncate
  \/ KbdLockSpk
  \/ KbdClear

FairSpecLock == SpecLock /\ WF_vars(LockInternalStep)

(***************************************************************************)
(* The wire: the four contexts that send on out_tx, send_task that writes  *)
(* to the websocket, and the end of the receiver loop.                     *)
(***************************************************************************)
WireEvents ==
  { ev \in InboundEvents :
      ev.type \in {"input_audio_buffer.committed",
                   "input_audio_buffer.speech_started", "error"} }

InitWireSpec ==
  /\ InitProgram
  /\ InitAudio
  /\ InitMeter
  /\ InitWire
  /\ hist = InitHist
  /\ budget = Budget(MaxWireEvents, MaxWireChunks, 0, MaxKeys)

SendStep ==
  \/ SendRecv
  \/ SendWrite
  \/ SendFail

NextWire ==
  \/ \E ev \in WireEvents : RxRecv(ev)
  \/ RxLockState
  \/ RxLockSpk
  \/ RxCommitted
  \/ RxSpeechStarted
  \/ RxSsCancel
  \/ RxSsTruncate
  \/ RxSsClear
  \/ RxClosed
  \/ \E i \in 1..Len(timers) : TimerLock(i)
  \/ \E i \in 1..Len(timers) : TimerFire(i)
  \/ Tick
  \/ CapStep
  \/ FwStep
  \/ KbdStep
  \/ SendStep

SpecWire == InitWireSpec /\ [][NextWire]_vars

(***************************************************************************)
(* The playback ring buffer: its producer (response.audio.delta), its      *)
(* consumer (playback callback) and the two contexts that clear it         *)
(* (speech_started, key I).                                                *)
(***************************************************************************)
BufEvents ==
  { ev \in InboundEvents :
      \/ ev.type = "input_audio_buffer.speech_started"
      \/ ev.type = "response.audio.delta" /\ ev.n \in 1..MaxDeltaSamples }

\* The buffer specification starts where the core stands after two commits
\* at time 0, the first timer task's response.create, response.done and the
\* second timer task's response.create (a state Spec reaches): audio of two
\* responses can arrive.
BufStart ==
  /\ st = [InitState EXCEPT !.response_inflight = TRUE]
  /\ state_lock = "free"
  /\ spk_buf = <<>>
  /\ spk_lock = "free"
  /\ out_q = << Msg("response.create", "timer"), Msg("response.create", "timer") >>
  /\ now = resp_delay_long_ms
  /\ rx = RxIdle
  /\ timers = << [at |-> 0, delay |-> resp_delay_long_ms, pc |-> "done",
                  emitted |-> TRUE],
                 [at |-> 0, delay |-> resp_delay_long_ms, pc |-> "done",
                  emitted |-> TRUE] >>
  /\ nCreate = 2
  /\ ss_log = <<>>
  /\ kw_log = NoDecision
  /\ scen = "off"
  /\ cleared = {}
  /\ hist = [InitHist EXCEPT !.was_inflight = TRUE, !.last_ev = "response.done",
                             !.phase = "outstanding"]

InitBuf ==
  /\ BufStart
  /\ InitAudio
  /\ InitMeter
  /\ InitWire
  /\ budget = Budget(MaxBufEvents, 0, MaxBufPulls, MaxKeys)

NextBuf ==
  \/ \E ev \in BufEvents : RxRecv(ev)
  \/ RxLockState
  \/ RxLockSpk
  \/ RxAudioDeltaActive
  \/ RxAudioDeltaPush
  \/ RxSpeechStarted
  \/ RxSsCancel
  \/ RxSsTruncate
  \/ RxSsClear
  \/ PlayStep
  \/ KbdStep

SpecBuf == InitBuf /\ [][NextBuf]_vars

(***************************************************************************)
(* The end of the session: the receiver loop ends while a timer task, the  *)
(* forwarding thread and the keyboard thread can still send.               *)
(***************************************************************************)
\* the commits of the session
CommitEvents == { ev \in InboundEvents : ev.type = "input_audio_buffer.committed" }

InitClose ==
  /\ InitProgram
  /\ InitAudio
  /\ InitMeter
  /\ InitWire
  /\ hist = InitHist
  /\ budget = Budget(MaxCloseEvents, MaxCloseChunks, 0, MaxKeys)

\* every step that is not the environment's: no message arriving, no end
\* of the stream, no captured chunk, no key, no failing write
CloseInternalStep ==
  \/ RxCommitted
  \/ MainDrop
  \/ MainJoin
  \/ \E i \in 1..Len(timers) : TimerLock(i)
  \/ \E i \in 1..Len(timers) : TimerFire(i)
  \/ Tick
  \/ CapMeter
  \/ CapSend
  \/ FwStep
  \/ KbdLockState
  \/ KbdTruncate
  \/ KbdLockSpk
  \/ KbdClear
  \/ SendRecv
  \/ SendWrite

NextClose ==
  \/ \E ev \in CommitEvents : RxRecv(ev)
  \/ RxClosed
  \/ \E c \in Chunks : CapCall(c)
  \/ KbdInterrupt
  \/ SendFail
  \/ CloseInternalStep

SpecClose == InitClose /\ [][NextClose]_vars

\* Fair scheduling: every task and thread that can take a step of its own
\* gets to take one; that a write fails is not assumed.
FairSpecClose == SpecClose /\ WF_vars(CloseInternalStep)

(***************************************************************************)
(* The server answers every response.create: the turn-taking core with     *)
(* commits from the session and, for each response.create sent, one answer *)
(* of the server, a terminal event of the response or an error event.      *)
(***************************************************************************)
\* what the server may answer a response.create with
ServerAnswers ==
  { ev \in InboundEvents :
      ev.type \in {"response.text.done", "response.audio.done",
                   "response.done", "error"} }

\* the commits the receiver loop has taken: one timer task each, the one
\* whose handler is running included
CommitsTaken ==
  Len(timers) + (IF rx.pc = "locked" /\ rx.ev.type = "input_audio_buffer.committed"
                 THEN 1 ELSE 0)

\* the answers the receiver loop has taken
AnswersTaken == (MaxAnswerEvents - budget.ev) - CommitsTaken

\* the response.create messages the server has not answered yet
Owed == nCreate - AnswersTaken

\* the timer tasks that may still send a response.create
PendingTimers == Cardinality({ i \in 1..Len(timers) : timers[i].pc # "done" })

\* a commit arrives only if the messages left suffice for the answers to
\* this and every earlier request
CommitArrives(ev) ==
  /\ ev \in CommitEvents
  /\ budget.ev > Owed + PendingTimers + 1
  /\ RxRecv(ev)

\* the server answers a request it has not answered yet
ServerAnswer(ev) ==
  /\ ev \in ServerAnswers
  /\ Owed > 0
  /\ RxRecv(ev)

InitAnswer ==
  /\ InitProgram
  /\ InitAudio
  /\ InitMeter
  /\ InitWire
  /\ hist = InitHist
  /\ budget = Budget(MaxAnswerEvents, 0, 0, 0)

\* every step but the arrival of a commit
AnswerStep ==
  \/ \E ev \in ServerAnswers : ServerAnswer(ev)
  \/ RxCommitted
  \/ RxTextDone
  \/ RxAudioDone
  \/ RxResponseDone
  \/ \E i \in 1..Len(timers) : TimerLock(i)
  \/ \E i \in 1..Len(timers) : TimerFire(i)
  \/ Tick

NextAnswer ==
  \/ \E ev \in CommitEvents : CommitArrives(ev)
  \/ AnswerStep

SpecAnswer == InitAnswer /\ [][NextAnswer]_vars

\* Fair scheduling: the receiver loop, the timer tasks and the clock go on,
\* and the server sends the answer it owes.
FairSpecAnswer == SpecAnswer /\ WF_vars(AnswerStep)

(***************************************************************************)
(* The level meter on its own: any buffer, one call.                       *)
(***************************************************************************)
MeterBuffers == UNION { [1..n -> MeterSamples] : n \in 0..MaxMeterLen }

InitLevel ==
  /\ InitProgram
  /\ InitAudio
  /\ InitWire
  /\ hist = InitHist
  /\ budget = Budget(0, 0, 0, 0)
  /\ lm_in \in MeterBuffers
  /\ lm_out = None

LevelMeterCall ==
  /\ lm_out = None
  /\ lm_out' = chunk_peak_level_i16(lm_in)
  /\ UNCHANGED <<coreVars, audioVars, lm_in, wireVars, hist>>

SpecLevel == InitLevel /\ [][LevelMeterCall]_vars

(***************************************************************************)
(* Claims on the turn-taking core.                                         *)
(***************************************************************************)
TimerDone(i) == timers[i].pc = "done"

\* commit j was handled inside the delay window opened by commit i
SameWindow(i, j) ==
  i < j /\ timers[j].at < timers[i].at + timers[i].delay

\* C1: two buffer-committed events handled within the response delay window
\* lead to exactly one response.create: once both timer tasks have run,
\* exactly one of them has emitted, whatever the receiver loop did between
C1_ExactlyOneCreate ==
  \A i, j \in 1..Len(timers) :
    (SameWindow(i, j) /\ TimerDone(i) /\ TimerDone(j))
      => (timers[i].emitted # timers[j].emitted)

\* speech_started was handled twice in a row, first with a response active
\* or inflight, then with both flags false, and both handlers are through
TwoSpeechStarted ==
  /\ rx.pc = "idle"
  /\ Len(ss_log) = 2
  /\ ss_log[1].spk
  /\ ~ss_log[2].spk

\* C2 as stated: the two events enqueue exactly one response.cancel and
\* exactly one conversation.item.truncate in total, and the second event
\* changes neither State nor the playback buffer
C2_OneCancelOneTruncate ==
  TwoSpeechStarted =>
    /\ ss_log[1].cancels + ss_log[2].cancels = 1
    /\ ss_log[1].truncs + ss_log[2].truncs = 1
    /\ ~ss_log[2].changed

\* C2 amended: exactly one response.cancel; exactly one truncate when
\* last_assistant_item_id is set at the interruption and none otherwise;
\* the second event changes neither State nor the playback buffer
C2_OneCancelTruncateIfItem ==
  TwoSpeechStarted =>
    /\ ss_log[1].cancels + ss_log[2].cancels = 1
    /\ ss_log[1].truncs + ss_log[2].truncs = (IF ss_log[1].had_item THEN 1 ELSE 0)
    /\ ~ss_log[2].changed

C2_Witness ==
  /\ TwoSpeechStarted
  /\ ss_log[1].had_item
  /\ ss_log[1].truncs = 1

\* the receiver loop's interruption messages, in queue order
RxInterruptMsgs ==
  SelectSeq(out_q, LAMBDA m : m.by = "rx")

\* the scenario commit, response.create, audio delta, speech_started has
\* run and the loop is about to take the next message
ScenarioDone == scen = "interrupted" /\ rx.pc = "idle"

\* C3 as stated: response.cancel and then truncate(last_assistant_item_id,
\* 0, 0) are enqueued in that order, the playback buffer is empty and both
\* flags are false
C3_CancelThenTruncate ==
  ScenarioDone =>
    /\ RxInterruptMsgs = << Msg("response.cancel", "rx"),
                            TruncateMsg(st.last_assistant_item_id, "rx") >>
    /\ st.last_assistant_item_id # None
    /\ spk_buf = <<>>
    /\ ~st.response_active /\ ~st.response_inflight

\* C3 amended: response.cancel is enqueued, followed by the truncate when
\* last_assistant_item_id is set (no truncate otherwise); the playback
\* buffer is empty and both flags are false
C3_CancelThenTruncateIfItem ==
  ScenarioDone =>
    /\ RxInterruptMsgs =
         IF st.last_assistant_item_id = None
         THEN << Msg("response.cancel", "rx") >>
         ELSE << Msg("response.cancel", "rx"),
                 TruncateMsg(st.last_assistant_item_id, "rx") >>
    /\ spk_buf = <<>>
    /\ ~st.response_active /\ ~st.response_inflight

C3_Witness ==
  /\ ScenarioDone
  /\ st.last_assistant_item_id # None
  /\ Len(RxInterruptMsgs) = 2

\* C4: once an interruption has flushed the playback buffer, no sample of
\* the cancelled response is in the buffer for the playback callback
C4_NoStaleAudio ==
  \A k \in 1..Len(spk_buf) : spk_buf[k] \notin cleared

\* C8 as stated: keyword interruptions are at least the cooldown apart, and
\* a keyword-matching delta handled once the cooldown since the previous
\* keyword interruption has elapsed starts an interruption
C8_CooldownThenSecond ==
  /\ (kw_log.fired /\ kw_log.prev_kw # None)
       => kw_log.at - kw_log.prev_kw >= cancel_cooldown_ms
  /\ (kw_log.hot /\ kw_log.prev_kw # None
        /\ kw_log.at - kw_log.prev_kw >= cancel_cooldown_ms)
       => kw_log.fired

\* C8 amended: keyword interruptions are at least the cooldown apart, and a
\* keyword-matching delta handled once the cooldown since the last
\* interruption has elapsed starts an interruption exactly when a response
\* is active or inflight at that moment
C8_CooldownThenSecondIfSpeaking ==
  /\ (kw_log.fired /\ kw_log.prev_kw # None)
       => kw_log.at - kw_log.prev_kw >= cancel_cooldown_ms
  /\ kw_log.fired => kw_log.hot
  /\ (kw_log.hot /\ (kw_log.last_cancel = None
                       \/ kw_log.at - kw_log.last_cancel >= cancel_cooldown_ms))
       => (kw_log.fired <=> kw_log.spk)

C8_Witness ==
  /\ kw_log.fired
  /\ kw_log.prev_kw # None


(***************************************************************************)
(* Claims on the two mutexes.                                              *)
(***************************************************************************)
Contexts == {"rx", "timer", "cap", "fw", "play", "kbd"}

\* context c has called lock() on State and has not got it yet
WantsState(c) ==
  CASE c = "rx" -> rx.pc \in {"ss_item_lock", "kw_item_lock", "kw_st2_lock"}
    [] c = "fw" -> fw.pc = "speak_lock"
    [] c = "play" -> play.pc = "state_lock"
    [] c = "kbd" -> kbd.pc = "item_lock"
    [] c = "timer" -> \E i \in 1..Len(timers) :
                        /\ timers[i].pc = "sleep"
                        /\ now >= timers[i].at + timers[i].delay
                        /\ \A j \in 1..Len(timers) : timers[j].pc # "locked"
    [] OTHER -> FALSE

\* context c has called lock() on spk_buf and has not got it yet
WantsSpk(c) ==
  CASE c = "rx" -> rx.pc \in {"ad_spk_lock", "ss_spk_lock", "kw_spk_lock"}
    [] c = "play" -> play.pc = "spk_lock"
    [] c = "kbd" -> kbd.pc = "spk_lock"
    [] OTHER -> FALSE

\* C5: no context holds the State mutex and the spk_buf mutex at once
C5_NeverBothLocks ==
  \A c \in Contexts : ~(state_lock = c /\ spk_lock = c)

\* no two contexts wait for each other's mutex
NoLockCycle ==
  \A c1, c2 \in Contexts :
    ~(/\ c1 # c2
      /\ state_lock = c1 /\ WantsSpk(c1)
      /\ spk_lock = c2 /\ WantsState(c2))

\* C6: there is no lock deadlock, and under fair scheduling every context
\* that asks for a mutex gets it
C6_NoDeadlock ==
  /\ []NoLockCycle
  /\ \A c \in Contexts : WantsState(c) ~> (state_lock = c)
  /\ \A c \in Contexts : WantsSpk(c) ~> (spk_lock = c)

\* the playback callback waits for State, holding spk_buf, while the
\* receiver loop waits for spk_buf: both get their mutex in the end
C6_Witness ==
  /\ play.pc = "state_lock"
  /\ spk_lock = "play"
  /\ state_lock \notin {"free", "play"}
  /\ WantsSpk("rx")


\* C7: every State transition is one critical section, so that no context
\* observes part of it; during a keyword interruption the forwarding thread
\* never reads the flags as still set with last_cancel_at already stamped
C7_NoHalfUpdate ==
  ~(fw_saw.mid_keyword /\ fw_saw.speaking)

(***************************************************************************)
(* Claims on the capture gate and the level meter.                         *)
(***************************************************************************)
\* the chunks of gate_log whose iteration of the forwarding loop is over
GateDone == IF fw.pc = "send" THEN Len(gate_log) - 1 ELSE Len(gate_log)

\* the length of the run of chunks ending at chunk i that were all examined
\* while speaking and all at or above onset_peak
RECURSIVE RunLen(_)
RunLen(i) ==
  IF i = 0 \/ ~gate_log[i].spk \/ ~gate_log[i].loud THEN 0
  ELSE 1 + RunLen(i - 1)

\* C9: a chunk is forwarded if and only if the assistant is not speaking
\* when the chunk is examined, or the chunk ends a run of at least
\* onset_min_chunks chunks all examined while speaking and all loud; a quiet
\* chunk or a chunk examined while not speaking resets the run
C9_GateRule ==
  \A i \in 1..GateDone :
    gate_log[i].sent <=> (~gate_log[i].spk \/ RunLen(i) >= onset_min_chunks)

\* a loud chunk held back while speaking, the next loud chunk forwarded
C9_Witness ==
  \E i \in 2..GateDone :
    /\ gate_log[i].spk /\ gate_log[i].sent
    /\ gate_log[i - 1].spk /\ gate_log[i - 1].loud /\ ~gate_log[i - 1].sent

\* the magnitude of a sample as a mathematical integer
Magnitude(s) == IF s < 0 THEN 0 - s ELSE s

\* the largest magnitude in a buffer, 0 for the empty buffer
MaxMagnitude(samples) ==
  IF samples = <<>> THEN 0
  ELSE CHOOSE m \in { Magnitude(samples[k]) : k \in 1..Len(samples) } :
         \A k \in 1..Len(samples) : Magnitude(samples[k]) <= m

\* C10: chunk_peak_level_i16 returns min(1.0, max|s| / 32767): 0.0 for the
\* empty buffer, 1.0 for a buffer with a sample of maximum magnitude, -32768
\* included (levels are numerators over 32767)
C10_LevelIsPeak ==
  lm_out # None =>
    lm_out = (IF MaxMagnitude(lm_in) > I16_MAX THEN I16_MAX
              ELSE MaxMagnitude(lm_in))

(***************************************************************************)
(* Claims on the playback ring buffer.                                     *)
(***************************************************************************)
\* the playback callback has made its pull and not returned yet
PullMade == play.pc \in {"state_lock", "both_locked"}

\* C11: the playback ring buffer is a zero-filling FIFO under every
\* interleaving of push, pull and clear: the buffer holds what the abstract
\* FIFO holds, and a pull(n) returns n samples, the oldest in push order and
\* zeros for the shortfall (all zeros when empty or just cleared)
C11_ZeroFillFifo ==
  /\ spk_buf = hist.fifo
  /\ PullMade => (play.out = hist.expect /\ Len(play.out) = play.n)

\* a pull of two samples returned audio of two responses in push order
C11_Witness ==
  /\ PullMade
  /\ play.n = 2
  /\ play.out[1] # 0 /\ play.out[2] # 0
  /\ play.out[1] # play.out[2]

(***************************************************************************)
(* Claims on the outbound wire.                                            *)
(***************************************************************************)
\* sequence p is a prefix of sequence q
IsPrefix(p, q) == Len(p) <= Len(q) /\ p = SubSeq(q, 1, Len(p))

\* C12: commands reach the wire in the order they were enqueued, whichever
\* context enqueued them: what send_task has written is always a prefix of
\* what was enqueued, and the message it is writing is the next one; the
\* receiver loop is inside at most one handler, that of the last message
C12_WireInEnqueueOrder ==
  /\ IsPrefix(wire, out_q)
  /\ snd.pc = "write" => IsPrefix(Append(wire, snd.msg), out_q)
  /\ rx.pc \notin {"idle", "closed"} => rx.ev.type = hist.last_ev

\* commands of three contexts are on the wire
C12_Witness ==
  /\ Len(wire) >= 3
  /\ \E i, j, k \in 1..Len(wire) :
       wire[i].by = "timer" /\ wire[j].by = "kbd" /\ wire[k].by = "fw"

\* C15: a write failure in send_task ends the session: the receiver loop
\* takes no further inbound message once the write has failed
C15_WriteFailureEndsSession == ~hist.after_fail

(***************************************************************************)
(* Claims on the response flags.                                           *)
(***************************************************************************)
\* the receiver loop is in the handler of a terminal event or of an event
\* that interrupts
TerminalOrInterrupting ==
  rx.ev.type \in {"response.audio.done", "response.done",
                  "input_audio_buffer.speech_started",
                  "conversation.item.input_audio_transcription.delta"}

\* a step of the receiver loop that ends a terminal event's handler, or
\* that changes a flag during a terminal event or an interruption
ClearingStep ==
  /\ rx' # rx
  /\ TerminalOrInterrupting
  /\ \/ rx.ev.type \in {"response.audio.done", "response.done"}
     \/ st'.response_active # st.response_active
     \/ st'.response_inflight # st.response_inflight

\* C13: response_active implies that response_inflight was true earlier,
\* and every terminal event (audio done, response done) and every local
\* interruption sets both flags to false in one atomic step
C13_ActiveAfterInflight ==
  /\ [](st.response_active => hist.was_inflight)
  /\ [][ClearingStep => (~st'.response_active /\ ~st'.response_inflight)]_vars

\* audio of a response arrives after an interruption has cleared the flags:
\* response_active is true again with response_inflight false
C13_Witness ==
  /\ st.response_active
  /\ ~st.response_inflight
  /\ st.last_cancel_at # None

(***************************************************************************)
(* Claims on the partial transcript, the dropped messages, the truncate   *)
(* target, the adaptive delay.                                             *)
(***************************************************************************)
\* the step that ends the handler of input_audio_buffer.committed
CommitHandled ==
  /\ rx.pc = "locked"
  /\ rx.ev.type = "input_audio_buffer.committed"
  /\ rx'.pc = "idle"

\* the step that ends an interruption sequence, speech_started or keyword
InterruptionHandled ==
  /\ rx.pc \in {"ss_spk_locked", "kw_st2_locked"}
  /\ rx'.pc = "idle"

\* C14: last_user_partial is empty once a commit has been handled and once
\* an interruption sequence (speech_started or keyword) is through
C14_PartialCleared ==
  [][(CommitHandled \/ InterruptionHandled) => st'.last_user_partial = <<>>]_vars

\* the types of the messages the receiver loop drops: non-text frames,
\* undecodable text, events of a type no arm matches, error events
DroppedTypes == {"nontext", "undecodable", "unknown", "error"}

\* the step in which the receiver loop takes a message of a dropped type
TakesDropped ==
  /\ rx.pc = "idle"
  /\ budget'.ev < budget.ev
  /\ hist'.last_ev \in DroppedTypes

\* C16: a non-text frame, an undecodable payload, an event of unknown type
\* or an error event leaves State, the playback buffer and the outbound
\* queue as they are and the receiver loop ready for the next message
C16_DroppedChangeNothing ==
  /\ [][TakesDropped => (UNCHANGED <<st, spk_buf, out_q>> /\ rx'.pc = "idle")]_vars
  /\ [](hist.last_ev \in DroppedTypes => rx.pc = "idle")

\* an error event was dropped in the middle of a response
C16_Witness ==
  /\ hist.last_ev = "error"
  /\ rx.pc = "idle"
  /\ st.response_active
  /\ spk_buf # <<>>

\* the receiver loop is at the truncate of an interruption, with an item id
TruncateDue ==
  /\ rx.pc \in {"ss_item_locked", "kw_item_locked"}
  /\ st.last_assistant_item_id # None

\* C17: the item an interruption truncates was stored while the response
\* being cancelled was the newest one requested, not under an earlier one
C17_TruncateTargetsCancelled == TruncateDue => hist.item_resp = rx.tgt

\* the characters that end a finished sentence
TerminalPunctuation == {".", "!", "?"}

\* the delay the commit handler is to pick for last_user = u
ExpectedDelay(u) ==
  IF u # <<>> /\ u[Len(u)] \in TerminalPunctuation
  THEN resp_delay_short_ms
  ELSE resp_delay_long_ms

\* the timer task the commit handler spawns in this step
SpawnedTimer == timers'[Len(timers')]

\* C18: the timer spawned on a commit sleeps the short delay if last_user
\* ends in '.', '!' or '?' at that moment and the long delay otherwise, and
\* no timer task gets to its check-and-create before its delay is over
C18_AdaptiveDelay ==
  /\ [][CommitHandled =>
          /\ Len(timers') = Len(timers) + 1
          /\ SpawnedTimer.at = now
          /\ SpawnedTimer.delay = ExpectedDelay(st.last_user)]_vars
  /\ [](\A i \in 1..Len(timers) :
          timers[i].pc # "sleep" => now >= timers[i].at + timers[i].delay)

\* one commit after a question and one after an unfinished sentence; the
\* response of the first was requested the moment its short delay was over
C18_Witness ==
  /\ Len(timers) = 2
  /\ timers[1].delay = resp_delay_short_ms
  /\ timers[2].delay = resp_delay_long_ms
  /\ timers[1].emitted
  /\ out_q # <<>>
  /\ now = timers[1].at + resp_delay_short_ms

\* the playback callback is at a lock() that cannot return now
PlayWaitsForSpk == play.pc = "spk_lock" /\ spk_lock # "free"
PlayWaitsForState == play.pc = "state_lock" /\ state_lock # "free"

\* C19: the playback callback never has to wait, neither for the playback
\* buffer mutex nor for the State mutex
C19_PlaybackNeverWaits == ~PlayWaitsForSpk /\ ~PlayWaitsForState

\* C20: while the speech_started handler is between clearing the flags and
\* sending its response.cancel, no response.create has been sent since it
\* cleared the flags
C20_NoCreateBeforeCancel == rx.pc = "ss_cancel" => nCreate = rx.tgt

\* a response.create is sent in this step
CreateEnqueued == nCreate' = nCreate + 1

\* C21: no response.create is sent while the response of an earlier one is
\* still outstanding, its response.done not received and no local
\* interruption begun
C21_OneOutstanding == [][CreateEnqueued => hist.phase # "outstanding"]_vars

\* C22: from the end of an interruption sequence of the receiver loop to
\* the next response.create both flags stay false, whatever arrives
C22_IdleAfterInterruption ==
  hist.phase = "interrupted" => (~st.response_active /\ ~st.response_inflight)

\* C23: whenever response_inflight is set it is cleared again later, the
\* server answering every response.create with a terminal event or an error
C23_InflightResolved == st.response_inflight ~> ~st.response_inflight

\* the step that ends the sequence of key I
KbdSequenceDone == kbd.pc = "spk_locked" /\ kbd'.pc = "idle"

\* C24: when a sequence that sent response.cancel is through, speech_started,
\* keyword or key I, both flags are false and last_cancel_at is set
C24_InterruptionClearsFlags ==
  [][(InterruptionHandled \/ KbdSequenceDone) =>
       /\ ~st'.response_active
       /\ ~st'.response_inflight
       /\ st'.last_cancel_at # None]_vars

\* C25: once the receiver loop has ended the main task gets through
\* send_task.await and returns
C25_MainTerminates == (rx.pc = "closed") ~> (main_pc = "done")

=============================================================================
